---- MODULE Spec2Model ----
(***************************************************************************)
(* Model of the DingTalk client (lib/client.js appended to                  *)
(* src/lib/api/message.js, lines 108-589) and of the Message wrappers       *)
(* (lines 1-106): the credential cache (getAccessToken, getJSApiTicket),    *)
(* the request primitive, the required-field checks of the wrappers, the    *)
(* URL normalisation used for signing and the signing of getJSApiConfig.    *)
(*                                                                          *)
(* Every `await` of the source is a scheduling point: an action of the      *)
(* model is the synchronous code that runs between two awaits of one call.  *)
(*                                                                          *)
(*   Spec         one caller going through the token, ticket and user calls *)
(*   SpecRace     several callers running getAccessToken() interleaved      *)
(*   SpecMessage  one caller going through the Message wrappers             *)
(*   SpecUrl      _normalizeUrl applied to a URL and to its own result      *)
(*   SpecSign     one caller calling getJSApiConfig() again and again       *)
(***************************************************************************)
EXTENDS Integers, Sequences, FiniteSets, TLC

(* ------------------------------ bounds --------------------------------- *)
MaxTicks == 1
MaxTokens == 3

Callers == {"a", "b"}
TickMs == {1000}
TokenValues == {1, 2}
TicketValues == {5}
SuppliedTokens == {9}
ExpiresIn == {10, 11}
ErrCodes == {1, 2}
TicketTypes == {"jsapi", "agent"}

(* JavaScript values that are not numbers of the model *)
Undefined == 0
NaN == 0 - 1
None == <<>>
Some(x) == <<x>>

VARIABLES now, sso, store, ticketStore, callers, lastSaved,
          url, once, twice, stage

vars == <<now, sso, store, ticketStore, callers, lastSaved,
          url, once, twice, stage>>

(* ------------------------- values and records -------------------------- *)
\* What `response.data` holds: the JSON envelope of the remote answer.
Body(errcode, access_token, ticket, expires_in) ==
    [errcode |-> errcode, access_token |-> access_token,
     ticket |-> ticket, expires_in |-> expires_in]

\* The urllib response object itself (request() returns it when data is
\* empty): it has no errcode, access_token, ticket or expires_in property.
RawResponse == Body(NaN, Undefined, Undefined, NaN)

NoOut ==
    [kind |-> "pending", name |-> "", code |-> NaN, data |-> None,
     body |-> None, value |-> Undefined]

\* A caller with no call in progress. token, ticketToken, accessToken and
\* result are the locals of getAccessToken(), getJSApiTicket() and request();
\* The names a signature record can carry; an opts object that sets none
\* of them.
SignKeys == {"agentid", "jsapi_ticket", "noncestr", "timestamp", "url"}

NoOpts == [k \in SignKeys |-> None]

\* arg and opts are the arguments of the call, before is the ticket store
\* when the call started, and the fields from nTokFetch on record what the
\* call did and when. signUrl and signOpts are the arguments of
\* getJSApiConfig(), ticket the ticket it got, signedAt the time it signed
\* at and config what it returned; earlier is the caller's last
\* getJSApiConfig() call that returned a config before this one.
Idle ==
    [pc |-> "idle", op |-> "", api |-> "", arg |-> "", type |-> "",
     opts |-> {}, before |-> [t \in TicketTypes |-> None],
     ignoreAccessToken |-> FALSE, supplied |-> Undefined,
     token |-> None, ticketToken |-> None, accessToken |-> Undefined,
     http |-> None, resp |-> None, result |-> NoOut, out |-> NoOut,
     nTokFetch |-> 0, nTktFetch |-> 0, nReq |-> 0,
     nTokSave |-> 0, nTktSave |-> 0,
     tokChkAt |-> NaN, tokHitAt |-> NaN, tktChkAt |-> NaN, tktHitAt |-> NaN,
     tokSaved |-> None, tokSavedAt |-> NaN,
     tktSaved |-> None, tktSavedAt |-> NaN, raced |-> FALSE,
     signUrl |-> <<>>, signOpts |-> NoOpts, ticket |-> Undefined,
     signedAt |-> NaN, config |-> None, earlier |-> None]

(* -------------------------- credential cache --------------------------- *)
\* AccessToken.isValid / Ticket.isValid: valid while the current time is
\* before expireTime. A comparison with NaN is false.
isValid(expireTime, t) == expireTime # NaN /\ t < expireTime


\* Variants of the check of line 476: the expiry is not looked at; the
\* stored token is never used.
TokenPresent(token, t) == token # None

TokenNeverValid(token, t) == FALSE

\* line 476: token && new AccessToken(...).isValid()
TokenIsValid(token, t) == token # None /\ isValid(token[1].expireTime, t)

\* line 513: ticketToken && new Ticket(...).isValid()
TicketIsValid(ticketToken, t) ==
    ticketToken # None /\ isValid(ticketToken[1].expireTime, t)

\* lines 485-491: the endpoint the token is fetched from.
TokenEndpoint(flag) == IF flag THEN "sso/gettoken" ELSE "gettoken"


\* Variant of line 497 without the 10 seconds taken off.
ExpireTimeNoMargin(t, expires_in) ==
    IF expires_in = NaN THEN NaN ELSE t + expires_in * 1000

\* lines 497 and 523: now + (expires_in - 10) * 1000; NaN when the answer
\* carries no expires_in.
ExpireTime(t, expires_in) ==
    IF expires_in = NaN THEN NaN ELSE t + (expires_in - 10) * 1000

\* line 510: type = type || 'jsapi' ("" stands for an omitted argument).
DefaultType(type) == IF type = "" THEN "jsapi" ELSE type

(* ------------------------- request primitive --------------------------- *)

\* Variant of lines 214-217 that overlooks the caller-supplied token.
NeedsTokenAlways(ignoreAccessToken, accessToken) == ~ignoreAccessToken

\* lines 214-217: request() resolves a token through getAccessToken() when
\* it is not suppressed and the caller supplied none.
NeedsToken(ignoreAccessToken, accessToken) ==
    ~ignoreAccessToken /\ accessToken = Undefined

\* lines 212-222: the HTTP call as issued; access_token is a query
\* parameter unless ignoreAccessToken is set.
HttpCall(api, ignoreAccessToken, accessToken) ==
    [url |-> api,
     hasToken |-> ~ignoreAccessToken,
     access_token |-> IF ignoreAccessToken THEN Undefined ELSE accessToken]

\* What the remote side (or the transport) may answer to a call.
SuccessBodies(api) ==
    IF api \in {"gettoken", "sso/gettoken"}
    THEN {Body(0, v, Undefined, e) : v \in TokenValues, e \in ExpiresIn}
    ELSE IF api = "get_jsapi_ticket"
    THEN {Body(0, Undefined, v, e) : v \in TicketValues, e \in ExpiresIn}
    ELSE {Body(0, Undefined, Undefined, NaN)}

ServerResponses(api) ==
    {[fail |-> TRUE, data |-> None], [fail |-> FALSE, data |-> None]}
    \cup {[fail |-> FALSE, data |-> Some(b)] : b \in SuccessBodies(api)}
    \cup {[fail |-> FALSE, data |-> Some(Body(c, Undefined, Undefined, NaN))] :
            c \in ErrCodes}


\* Variants of lines 248-257: the status field is not looked at; the
\* error does not carry the response body.
UnwrapNoCheck(resp) ==
    IF resp.fail
    THEN [NoOut EXCEPT !.kind = "error", !.name = "TransportError"]
    ELSE IF resp.data # None
    THEN [NoOut EXCEPT !.kind = "ok", !.body = resp.data]
    ELSE [NoOut EXCEPT !.kind = "ok", !.body = Some(RawResponse)]

UnwrapNoData(resp) ==
    IF resp.fail
    THEN [NoOut EXCEPT !.kind = "error", !.name = "TransportError"]
    ELSE IF resp.data # None
    THEN IF resp.data[1].errcode # 0
         THEN [NoOut EXCEPT !.kind = "error",
                            !.name = "DingTalkClientResponseError",
                            !.code = resp.data[1].errcode]
         ELSE [NoOut EXCEPT !.kind = "ok", !.body = resp.data]
    ELSE [NoOut EXCEPT !.kind = "ok", !.body = Some(RawResponse)]

\* lines 232-260: the outcome of request() for an answer.
Unwrap(resp) ==
    IF resp.fail
    THEN [NoOut EXCEPT !.kind = "error", !.name = "TransportError"]
    ELSE IF resp.data # None
    THEN IF resp.data[1].errcode # 0
         THEN [NoOut EXCEPT !.kind = "error",
                            !.name = "DingTalkClientResponseError",
                            !.code = resp.data[1].errcode,
                            !.data = resp.data]
         ELSE [NoOut EXCEPT !.kind = "ok", !.body = resp.data]
    ELSE [NoOut EXCEPT !.kind = "ok", !.body = Some(RawResponse)]

\* line 234: the call leaves; the counters record which endpoint it went to.
Issue(r, api, ignoreAccessToken, accessToken) ==
    [r EXCEPT
       !.http = Some(HttpCall(api, ignoreAccessToken, accessToken)),
       !.nTokFetch = @ + (IF api \in {"gettoken", "sso/gettoken"} THEN 1 ELSE 0),
       !.nTktFetch = @ + (IF api = "get_jsapi_ticket" THEN 1 ELSE 0),
       !.nReq = @ + (IF api \in {"gettoken", "sso/gettoken", "get_jsapi_ticket"}
                     THEN 0 ELSE 1)]

\* lines 209-234: request() up to its first await. Either getAccessToken()
\* starts (its getToken() hook reads the store at once, lines 145-147 and
\* 475), or the HTTP call is issued.
EnterRequest(r, api, ignoreAccessToken, accessToken) ==
    LET q == [r EXCEPT !.api = api, !.ignoreAccessToken = ignoreAccessToken,
                       !.supplied = accessToken]
    IN  IF NeedsToken(ignoreAccessToken, accessToken)
        THEN [q EXCEPT !.token = store, !.pc = "tok_check"]
        ELSE [Issue(q, api, ignoreAccessToken, accessToken) EXCEPT
                !.accessToken = accessToken, !.pc = "req_wait"]

\* The call rejects with the error of request().
Reject(r, err) == [r EXCEPT !.pc = "done", !.out = err, !.http = None]


\* Variant of line 500 that returns what the store holds at that moment.
ReturnStored(r, v) ==
    IF r.op = "getAccessToken"
    THEN [r EXCEPT !.pc = "done", !.accessToken = store[1].accessToken,
                   !.out = [NoOut EXCEPT !.kind = "ok",
                                         !.value = store[1].accessToken]]
    ELSE [r EXCEPT !.pc = "req_attach", !.accessToken = store[1].accessToken]

\* lines 477 and 500: getAccessToken() returns; a bare getAccessToken() call
\* is over, request() goes on at line 219.
ReturnToken(r, v) ==
    IF r.op = "getAccessToken"
    THEN [r EXCEPT !.pc = "done", !.accessToken = v,
                   !.out = [NoOut EXCEPT !.kind = "ok", !.value = v]]
    ELSE [r EXCEPT !.pc = "req_attach", !.accessToken = v]

\* lines 514 and 526: getJSApiTicket() returns; a bare getJSApiTicket()
\* call is over, getJSApiConfig() goes on at line 561.
ReturnTicket(r, v) ==
    IF r.op = "getJSApiConfig"
    THEN [r EXCEPT !.pc = "sign", !.ticket = v]
    ELSE [r EXCEPT !.pc = "done",
                   !.out = [NoOut EXCEPT !.kind = "ok", !.value = v]]

(* --------------------------- Message wrappers -------------------------- *)
MessageMethods ==
    {"send", "listMessageStatus", "sendMessage", "getSendProgress",
     "getSendResult", "recallMessage"}

\* The fields a call may carry ("body" is opts[opts.msgtype]).
Fields(method) ==
    CASE method = "send" -> {"touser", "toparty", "msgtype", "agentid", "body"}
      [] method = "listMessageStatus" -> {"messageId"}
      [] method = "sendMessage" ->
            {"agent_id", "userid_list", "dept_id_list", "to_all_user", "msg"}
      [] method = "getSendProgress" -> {"agent_id", "task_id"}
      [] method = "getSendResult" -> {"agent_id", "task_id"}
      [] method = "recallMessage" -> {"agent_id", "msg_task_id"}


\* Variant of lines 30-33 without the agentid assert of send().
AssertsNoAgentid(method, opts) ==
    CASE method = "send" ->
            /\ ("touser" \in opts \/ "toparty" \in opts)
            /\ "msgtype" \in opts
            /\ "body" \in opts
      [] method = "listMessageStatus" -> "messageId" \in opts
      [] method = "sendMessage" ->
            /\ "agent_id" \in opts
            /\ ("userid_list" \in opts \/ "dept_id_list" \in opts
                    \/ "to_all_user" \in opts)
            /\ "msg" \in opts
      [] method = "getSendProgress" -> "agent_id" \in opts /\ "task_id" \in opts
      [] method = "getSendResult" -> "agent_id" \in opts /\ "task_id" \in opts
      [] method = "recallMessage" ->
            "agent_id" \in opts /\ "msg_task_id" \in opts

\* lines 30-33, 45, 61-63, 75-76, 88-89, 101-102: the asserts all pass.
Asserts(method, opts) ==
    CASE method = "send" ->
            /\ ("touser" \in opts \/ "toparty" \in opts)
            /\ "msgtype" \in opts
            /\ "agentid" \in opts
            /\ "body" \in opts
      [] method = "listMessageStatus" -> "messageId" \in opts
      [] method = "sendMessage" ->
            /\ "agent_id" \in opts
            /\ ("userid_list" \in opts \/ "dept_id_list" \in opts
                    \/ "to_all_user" \in opts)
            /\ "msg" \in opts
      [] method = "getSendProgress" -> "agent_id" \in opts /\ "task_id" \in opts
      [] method = "getSendResult" -> "agent_id" \in opts /\ "task_id" \in opts
      [] method = "recallMessage" ->
            "agent_id" \in opts /\ "msg_task_id" \in opts

\* lines 34, 46, 64, 77, 90, 103: the endpoint each wrapper posts to.
Api(method) ==
    CASE method = "send" -> "message/send"
      [] method = "listMessageStatus" -> "message/list_message_status"
      [] method = "sendMessage" -> "topapi/message/corpconversation/asyncsend_v2"
      [] method = "getSendProgress" ->
            "topapi/message/corpconversation/getsendprogress"
      [] method = "getSendResult" -> "topapi/message/corpconversation/getsendresult"
      [] method = "recallMessage" -> "topapi/message/corpconversation/recall"

(* ------------------------------ actions -------------------------------- *)
urlVars == <<url, once, twice, stage>>

CanStart(c) == callers[c].pc \in {"idle", "done"}

Set(c, r) == callers' = [callers EXCEPT ![c] = r]

\* Date.now() moves on.
Tick(d) ==
    /\ now + d <= MaxTicks * 1000
    /\ now' = now + d
    /\ UNCHANGED <<sso, store, ticketStore, callers, lastSaved, urlVars>>

\* lines 473-475: getAccessToken() is called; getToken() reads the store.
StartGetAccessToken(c) ==
    /\ CanStart(c)
    /\ Set(c, [Idle EXCEPT !.op = "getAccessToken", !.token = store,
                           !.pc = "tok_check"])
    /\ UNCHANGED <<now, sso, store, ticketStore, lastSaved, urlVars>>

\* lines 476-492: the validity check; a valid stored token is returned,
\* otherwise the token endpoint is called (with ignoreAccessToken).
TokCheck(c) ==
    LET r == callers[c] IN
    /\ r.pc = "tok_check"
    /\ IF TokenIsValid(r.token, now)
       THEN Set(c, ReturnToken([r EXCEPT !.tokChkAt = now, !.tokHitAt = now],
                               r.token[1].accessToken))
       ELSE callers' =
              [d \in Callers |->
                 IF d = c
                 THEN [Issue(r, TokenEndpoint(sso), TRUE, Undefined) EXCEPT
                         !.pc = "tok_wait", !.tokChkAt = now,
                         !.raced = \E e \in Callers \ {c} :
                                       callers[e].pc = "tok_wait"]
                 ELSE IF callers[d].pc = "tok_wait"
                 THEN [callers[d] EXCEPT !.raced = TRUE]
                 ELSE callers[d]]
    /\ UNCHANGED <<now, sso, store, ticketStore, lastSaved, urlVars>>

\* lines 234-260 for the token fetch: the answer arrives; request() throws
\* (and getAccessToken() with it) or hands the result to getAccessToken().
TokResponse(c, resp) ==
    LET r == callers[c]
        o == Unwrap(resp)
        q == [r EXCEPT !.resp = Some(resp), !.result = o, !.http = None] IN
    /\ r.pc = "tok_wait"
    /\ resp \in ServerResponses(r.http[1].url)
    /\ IF o.kind = "error"
       THEN Set(c, Reject(q, o))
       ELSE Set(c, [q EXCEPT !.pc = "tok_save"])
    /\ UNCHANGED <<now, sso, store, ticketStore, lastSaved, urlVars>>

\* lines 493-498 and 148-149: the expiry is computed and saveToken() writes
\* the store.
TokSave(c) ==
    LET r == callers[c]
        response == r.result.body[1]
        saved == [accessToken |-> response.access_token,
                  expireTime |-> ExpireTime(now, response.expires_in)] IN
    /\ r.pc = "tok_save"
    /\ store' = Some(saved)
    /\ lastSaved' = c
    /\ Set(c, [r EXCEPT !.pc = "tok_saved", !.nTokSave = @ + 1,
                        !.tokSaved = Some(saved), !.tokSavedAt = now])
    /\ UNCHANGED <<now, sso, ticketStore, urlVars>>

\* line 500: return accessToken.
TokReturn(c) ==
    LET r == callers[c] IN
    /\ r.pc = "tok_saved"
    /\ Set(c, ReturnToken(r, r.result.body[1].access_token))
    /\ UNCHANGED <<now, sso, store, ticketStore, lastSaved, urlVars>>

\* lines 219-234: request() attaches the token and issues the call.
ReqIssue(c) ==
    LET r == callers[c] IN
    /\ r.pc = "req_attach"
    /\ Set(c, [Issue(r, r.api, r.ignoreAccessToken, r.accessToken) EXCEPT
                 !.pc = "req_wait"])
    /\ UNCHANGED <<now, sso, store, ticketStore, lastSaved, urlVars>>

\* lines 234-260: the answer arrives; request() throws or returns. A
\* wrapper returns what request() returned; getJSApiTicket() goes on at
\* line 519.
ReqResponse(c, resp) ==
    LET r == callers[c]
        o == Unwrap(resp)
        q == [r EXCEPT !.resp = Some(resp), !.result = o, !.http = None] IN
    /\ r.pc = "req_wait"
    /\ resp \in ServerResponses(r.http[1].url)
    /\ IF o.kind = "error"
       THEN Set(c, Reject(q, o))
       ELSE IF r.api = "get_jsapi_ticket"
       THEN Set(c, [q EXCEPT !.pc = "tkt_save"])
       ELSE Set(c, [q EXCEPT !.pc = "done", !.out = o])
    /\ UNCHANGED <<now, sso, store, ticketStore, lastSaved, urlVars>>


\* Variant of line 166 that files every ticket under the default type.
saveTicketTokenDefault(ts, type, ticketToken) ==
    [ts EXCEPT !["jsapi"] = ticketToken]

\* lines 165-166: this.ticketStore[type] = ticketToken
saveTicketToken(ts, type, ticketToken) == [ts EXCEPT ![type] = ticketToken]

\* lines 509-512: getJSApiTicket(type) is called; getTicketToken(type)
\* reads the ticket store (lines 162-164).
StartGetJSApiTicket(c, type) ==
    /\ CanStart(c)
    /\ Set(c, [Idle EXCEPT !.op = "getJSApiTicket",
                           !.arg = type, !.type = DefaultType(type),
                           !.before = ticketStore,
                           !.ticketToken = ticketStore[DefaultType(type)],
                           !.pc = "tkt_check"])
    /\ UNCHANGED <<now, sso, store, ticketStore, lastSaved, urlVars>>

\* lines 513-518: a valid stored ticket is returned, otherwise
\* get('get_jsapi_ticket', { type }) enters request().
TktCheck(c) ==
    LET r == callers[c] IN
    /\ r.pc = "tkt_check"
    /\ IF TicketIsValid(r.ticketToken, now)
       THEN Set(c, ReturnTicket([r EXCEPT !.tktChkAt = now, !.tktHitAt = now],
                                r.ticketToken[1].ticket))
       ELSE Set(c, EnterRequest([r EXCEPT !.tktChkAt = now],
                                "get_jsapi_ticket", FALSE, Undefined))
    /\ UNCHANGED <<now, sso, store, ticketStore, lastSaved, urlVars>>

\* lines 519-524 and 165-166: the expiry is computed and saveTicketToken()
\* writes the ticket of that type.
TktSave(c) ==
    LET r == callers[c]
        response == r.result.body[1]
        saved == [ticket |-> response.ticket,
                  expireTime |-> ExpireTime(now, response.expires_in)] IN
    /\ r.pc = "tkt_save"
    /\ ticketStore' = saveTicketToken(ticketStore, r.type, Some(saved))
    /\ Set(c, [r EXCEPT !.pc = "tkt_saved", !.nTktSave = @ + 1,
                        !.tktSaved = Some(saved), !.tktSavedAt = now])
    /\ UNCHANGED <<now, sso, store, lastSaved, urlVars>>

\* line 526: return ticket.
TktReturn(c) ==
    LET r == callers[c] IN
    /\ r.pc = "tkt_saved"
    /\ Set(c, ReturnTicket(r, r.result.body[1].ticket))
    /\ UNCHANGED <<now, sso, store, ticketStore, lastSaved, urlVars>>

\* lines 29-104: a Message wrapper is called; a failed assert rejects the
\* call, otherwise client.post() enters request() (lines 311-319).
CallMessage(c, method, opts) ==
    /\ CanStart(c)
    /\ opts \in SUBSET Fields(method)
    /\ IF Asserts(method, opts)
       THEN Set(c, EnterRequest([Idle EXCEPT !.op = method, !.opts = opts],
                                Api(method), FALSE, Undefined))
       ELSE Set(c, [Idle EXCEPT !.op = method, !.opts = opts, !.pc = "done",
                                !.out = [NoOut EXCEPT
                                           !.kind = "error",
                                           !.name = "AssertionError"]])
    /\ UNCHANGED <<now, sso, store, ticketStore, lastSaved, urlVars>>

\* lines 443-445: getUserInfo(accessToken, userid), a call with a
\* caller-supplied token (Undefined when the caller passes none).
GetUserInfo(c, accessToken) ==
    /\ CanStart(c)
    /\ Set(c, EnterRequest([Idle EXCEPT !.op = "getUserInfo"],
                           "user/get", FALSE, accessToken))
    /\ UNCHANGED <<now, sso, store, ticketStore, lastSaved, urlVars>>

\* lines 454-465: getuserinfo_bycode(), a call with ignoreAccessToken.
Getuserinfo_bycode(c) ==
    /\ CanStart(c)
    /\ Set(c, EnterRequest([Idle EXCEPT !.op = "getuserinfo_bycode"],
                           "sns/getuserinfo_bycode", TRUE, Undefined))
    /\ UNCHANGED <<now, sso, store, ticketStore, lastSaved, urlVars>>

(* --------------------------- URL normalisation ------------------------- *)
\* A URL is a sequence of one-character strings. BaseUrl stands for a
\* scheme://host/path prefix (such as https://a.com/p) that Url.parse and
\* Url.format hand back unchanged; the query and the fragment follow it.
BaseUrl == <<"u">>

\* The pieces the input URLs are built from.
Tokens ==
    {<<"x">>, <<"y">>, <<"=">>, <<"&">>, <<"#">>, <<"+">>,
     <<"%", "2", "5">>, <<"%", "2", "3">>, <<"%", "2", "6">>,
     <<"%", "3", "D">>, <<"3", "D">>}

RECURSIVE Flatten(_)
Flatten(ts) == IF ts = <<>> THEN <<>> ELSE Head(ts) \o Flatten(Tail(ts))

UrlInputs ==
    {BaseUrl} \cup
    {BaseUrl \o <<"?">> \o Flatten(ts) :
        ts \in UNION {[1..n -> Tokens] : n \in 0..MaxTokens}}

\* The first position of ch in s, 0 when there is none (indexOf).
RECURSIVE IndexFrom(_, _, _)
IndexFrom(s, ch, i) ==
    IF i > Len(s) THEN 0
    ELSE IF s[i] = ch THEN i ELSE IndexFrom(s, ch, i + 1)

IndexOf(s, ch) == IndexFrom(s, ch, 1)

\* s.split(ch)
RECURSIVE Split(_, _)
Split(s, ch) ==
    LET i == IndexOf(s, ch) IN
    IF i = 0 THEN <<s>>
    ELSE <<SubSeq(s, 1, i - 1)>> \o Split(SubSeq(s, i + 1, Len(s)), ch)

\* Url.parse trims the white space around the URL.
RECURSIVE Trim(_)
Trim(s) ==
    IF s = <<>> THEN s
    ELSE IF Head(s) = " " THEN Trim(Tail(s))
    ELSE IF s[Len(s)] = " " THEN Trim(SubSeq(s, 1, Len(s) - 1))
    ELSE s

\* Url.parse escapes the characters a URL may not hold (here the space).
RECURSIVE AutoEscape(_)
AutoEscape(s) ==
    IF s = <<>> THEN s
    ELSE IF Head(s) = " " THEN <<"%", "2", "0">> \o AutoEscape(Tail(s))
    ELSE <<Head(s)>> \o AutoEscape(Tail(s))

\* The escapes the inputs can hold and the character each stands for.
HexPairs == {<<"2", "5">>, <<"2", "3">>, <<"2", "6">>, <<"3", "D">>, <<"2", "0">>}

HexChar(pair) ==
    CASE pair = <<"2", "5">> -> "%"
      [] pair = <<"2", "3">> -> "#"
      [] pair = <<"2", "6">> -> "&"
      [] pair = <<"3", "D">> -> "="
      [] pair = <<"2", "0">> -> " "

\* querystring.unescape as querystring.parse applies it: '+' is a space,
\* %XX is decoded, a '%' that starts no escape stays as it is.
RECURSIVE Unescape(_)
Unescape(s) ==
    IF s = <<>> THEN s
    ELSE IF Head(s) = "+" THEN <<" ">> \o Unescape(Tail(s))
    ELSE IF Head(s) = "%" /\ Len(s) >= 3 /\ SubSeq(s, 2, 3) \in HexPairs
    THEN <<HexChar(SubSeq(s, 2, 3))>> \o Unescape(SubSeq(s, 4, Len(s)))
    ELSE <<Head(s)>> \o Unescape(Tail(s))

\* One key=value piece of a query string: split at the first '=',
\* both sides decoded.
Pair(piece) ==
    LET i == IndexOf(piece, "=") IN
    IF i = 0 THEN [key |-> Unescape(piece), value |-> <<>>]
    ELSE [key |-> Unescape(SubSeq(piece, 1, i - 1)),
          value |-> Unescape(SubSeq(piece, i + 1, Len(piece)))]

\* The object querystring.parse builds, as the sequence of its keys in
\* insertion order, each with the values it was given (a repeated key
\* holds an array). Empty pieces are skipped.
RECURSIVE AddPairs(_, _)
AddPairs(obj, pieces) ==
    IF pieces = <<>> THEN obj
    ELSE IF Head(pieces) = <<>> THEN AddPairs(obj, Tail(pieces))
    ELSE LET kv == Pair(Head(pieces))
             at == {i \in 1..Len(obj) : obj[i].key = kv.key}
         IN  IF at = {}
             THEN AddPairs(Append(obj, [key |-> kv.key, values |-> <<kv.value>>]),
                           Tail(pieces))
             ELSE AddPairs([i \in 1..Len(obj) |->
                              IF i \in at
                              THEN [obj[i] EXCEPT !.values = Append(@, kv.value)]
                              ELSE obj[i]],
                           Tail(pieces))

QsParse(qs) == AddPairs(<<>>, Split(qs, "&"))

\* line 540: Url.parse(url, true): the fragment starts at the first '#',
\* the query at the first '?' before it.
UrlParse(u) ==
    LET rest == AutoEscape(Trim(u))
        h == IndexOf(rest, "#")
        beforeHash == IF h = 0 THEN rest ELSE SubSeq(rest, 1, h - 1)
        q == IndexOf(beforeHash, "?")
    IN  [pathname |-> IF q = 0 THEN beforeHash ELSE SubSeq(beforeHash, 1, q - 1),
         search |-> IF q = 0 THEN <<>> ELSE SubSeq(beforeHash, q, Len(beforeHash)),
         query |-> IF q = 0 THEN <<>>
                   ELSE QsParse(SubSeq(beforeHash, q + 1, Len(beforeHash))),
         hash |-> IF h = 0 THEN <<>> ELSE SubSeq(rest, h, Len(rest))]

\* `${value}` of a string, or of an array: its elements joined by ','.
RECURSIVE JoinWith(_, _)
JoinWith(ss, sep) ==
    IF ss = <<>> THEN <<>>
    ELSE IF Len(ss) = 1 THEN ss[1]
    ELSE ss[1] \o sep \o JoinWith(Tail(ss), sep)

\* lines 541-545: key=value of every key of the query, joined by '&'.
QueryStr(query) ==
    JoinWith([i \in 1..Len(query) |->
                query[i].key \o <<"=">> \o JoinWith(query[i].values, <<",">>)],
             <<"&">>)

\* Url.format of the parsed URL: the part before the query, then the
\* search and the hash the object still holds.
UrlFormat(obj) == obj.pathname \o obj.search \o obj.hash

\* The variant that leaves `search` on the parsed URL.
KeepSearch(u) ==
    LET originUrlObj == UrlParse(u)
        queryStr == QueryStr(originUrlObj.query)
    IN  UrlFormat([originUrlObj EXCEPT !.hash = <<>>])
        \o (IF queryStr # <<>> THEN <<"?">> \o queryStr ELSE <<>>)

\* lines 538-550: _normalizeUrl(url).
normalizeUrl(u) ==
    LET originUrlObj == UrlParse(u)
        queryStr == QueryStr(originUrlObj.query)
    IN  UrlFormat([originUrlObj EXCEPT !.hash = <<>>, !.search = <<>>])
        \o (IF queryStr # <<>> THEN <<"?">> \o queryStr ELSE <<>>)

\* _normalizeUrl is applied to a URL, then to its own result.
Normalize ==
    /\ stage = 0
    /\ once' = normalizeUrl(url)
    /\ stage' = 1
    /\ UNCHANGED <<now, sso, store, ticketStore, callers, lastSaved, url, twice>>

NormalizeAgain ==
    /\ stage = 1
    /\ twice' = normalizeUrl(once)
    /\ stage' = 2
    /\ UNCHANGED <<now, sso, store, ticketStore, callers, lastSaved, url, once>>

InitUrl ==
    /\ now = 0
    /\ sso = FALSE
    /\ store = None
    /\ ticketStore = [t \in TicketTypes |-> None]
    /\ callers = [c \in Callers |-> Idle]
    /\ lastSaved = ""
    /\ url \in UrlInputs
    /\ once = <<>> /\ twice = <<>> /\ stage = 0

NextUrl == Normalize \/ NormalizeAgain

SpecUrl == InitUrl /\ [][NextUrl]_vars

(* ---------------------------- request signer -------------------------- *)
\* line 574: this.options.corpid.
Corpid == "corp"

\* The URLs and the opts objects getJSApiConfig() is called with: opts
\* sets noncestr, timestamp, both or neither, and may add a property of
\* its own when it sets both.
SignUrls == {BaseUrl, BaseUrl \o <<"?", "x", "=", "1", "#", "h">>}

SignOpts ==
    {o \in {[NoOpts EXCEPT !.noncestr = n, !.timestamp = t, !.agentid = a] :
               n \in {None, Some(<<"N">>)}, t \in {None, Some(1000)},
               a \in {None, Some(7)}} :
        o.agentid # None => o.noncestr # None /\ o.timestamp # None}

\* The names whose values are numbers; `${key}=${value}` writes them in
\* decimal.
NumberKeys == {"agentid", "jsapi_ticket", "timestamp"}

\* lines 562-565: the record getJSApiConfig() starts from, made at time t.
SignDefaults(ticket, t, u) ==
    [NoOpts EXCEPT !.jsapi_ticket = Some(ticket),
                   !.noncestr = Some(<<"DingTalk#", ToString(t)>>),
                   !.timestamp = Some(t),
                   !.url = Some(normalizeUrl(u))]


\* Variant of line 561 in which the properties of opts do not replace the
\* ones already there.
AssignKeep(target, source) ==
    [k \in SignKeys |-> IF target[k] # None THEN target[k] ELSE source[k]]

\* line 561: Object.assign(target, source); every property of source is
\* written over target's.
Assign(target, source) ==
    [k \in SignKeys |-> IF source[k] # None THEN source[k] ELSE target[k]]

\* line 568, Object.keys(): the properties in the order they were added,
\* the four of lines 562-565 first and what opts adds after them.
InsertionOrder == <<"jsapi_ticket", "noncestr", "timestamp", "url", "agentid">>

ObjectKeys(obj) == SelectSeq(InsertionOrder, LAMBDA k : obj[k] # None)

\* line 568, sort(): the names in code-unit order; KeyOrder lists the five
\* names in that order.
KeyOrder == <<"agentid", "jsapi_ticket", "noncestr", "timestamp", "url">>

Rank(k) == CHOOSE i \in 1..Len(KeyOrder) : KeyOrder[i] = k

RECURSIVE Insert(_, _)
Insert(k, sorted) ==
    IF sorted = <<>> THEN <<k>>
    ELSE IF Rank(k) < Rank(Head(sorted)) THEN <<k>> \o sorted
    ELSE <<Head(sorted)>> \o Insert(k, Tail(sorted))

RECURSIVE Sort(_)
Sort(keys) ==
    IF keys = <<>> THEN <<>> ELSE Insert(Head(keys), Sort(Tail(keys)))

\* line 568: `${key}=${signObj[key]}`.
KeyValue(obj, k) ==
    <<k, "=">> \o (IF k \in NumberKeys THEN <<ToString(obj[k][1])>> ELSE obj[k][1])

\* line 570: signContent.join('&').
RECURSIVE Join(_, _)
Join(parts, sep) ==
    IF parts = <<>> THEN <<>>
    ELSE IF Len(parts) = 1 THEN Head(parts)
    ELSE Head(parts) \o <<sep>> \o Join(Tail(parts), sep)

\* line 568: the key=value strings of the record, in the order of the
\* sorted names.
signContent(obj) ==
    LET keys == Sort(ObjectKeys(obj)) IN
    [i \in 1..Len(keys) |-> KeyValue(obj, keys[i])]

\* lines 569-571: the SHA-1 digest of a string, kept as the application of
\* the digest to that string: equal strings have equal digests.
Sha1(str) == <<"sha1(">> \o str \o <<")">>

\* What a caller keeps of a getJSApiConfig() call that returned: its
\* arguments, the stored ticket it read and whether it used it, when it
\* signed and what it returned.
Returned(r) ==
    IF r.op = "getJSApiConfig" /\ r.config # None
    THEN Some([url |-> r.signUrl, opts |-> r.signOpts,
               ticketToken |-> r.ticketToken, cached |-> r.tktHitAt # NaN,
               signedAt |-> r.signedAt, config |-> r.config[1]])
    ELSE r.earlier

\* lines 559-560: getJSApiConfig(url, opts) calls getJSApiTicket() with no
\* type; the stored ticket of the default type is read.
StartGetJSApiConfig(c, u, opts) ==
    /\ CanStart(c)
    /\ Set(c, [Idle EXCEPT !.op = "getJSApiConfig",
                           !.earlier = Returned(callers[c]),
                           !.signUrl = u, !.signOpts = opts,
                           !.type = DefaultType(""),
                           !.before = ticketStore,
                           !.ticketToken = ticketStore[DefaultType("")],
                           !.pc = "tkt_check"])
    /\ UNCHANGED <<now, sso, store, ticketStore, lastSaved, urlVars>>

\* lines 561-578: the record is built and signed, and the config returned.
Sign(c) ==
    LET r == callers[c]
        signObj == Assign(SignDefaults(r.ticket, now, r.signUrl), r.signOpts)
        signature == Sha1(Join(signContent(signObj), "&")) IN
    /\ r.pc = "sign"
    /\ Set(c, [r EXCEPT !.pc = "done", !.signedAt = now,
                        !.out = [NoOut EXCEPT !.kind = "ok"],
                        !.config = Some([corpId |-> Corpid,
                                         timeStamp |-> signObj.timestamp[1],
                                         nonceStr |-> signObj.noncestr[1],
                                         signature |-> signature])])
    /\ UNCHANGED <<now, sso, store, ticketStore, lastSaved, urlVars>>

(* --------------------------- specification ----------------------------- *)
\* lines 138-157: the client after construction; no token and no ticket
\* are stored, nothing is in flight.
Init ==
    /\ now = 0
    /\ sso \in BOOLEAN
    /\ store = None
    /\ ticketStore = [t \in TicketTypes |-> None]
    /\ callers = [c \in Callers |-> Idle]
    /\ lastSaved = ""
    /\ url = <<>> /\ once = <<>> /\ twice = <<>> /\ stage = 0

\* The steps of a getAccessToken() call, bare or made by request().
TokenStep(c) ==
    \/ StartGetAccessToken(c)
    \/ TokCheck(c)
    \/ \E resp \in ServerResponses(TokenEndpoint(sso)) : TokResponse(c, resp)
    \/ TokSave(c)
    \/ TokReturn(c)

\* The steps of request() after the token and of getJSApiTicket().
RequestStep(c) ==
    \/ ReqIssue(c)
    \/ \E resp \in ServerResponses("get_jsapi_ticket") \cup ServerResponses("user/get") :
         ReqResponse(c, resp)
    \/ \E type \in TicketTypes \cup {""} : StartGetJSApiTicket(c, type)
    \/ TktCheck(c)
    \/ TktSave(c)
    \/ TktReturn(c)
    \/ \E accessToken \in SuppliedTokens \cup {Undefined} : GetUserInfo(c, accessToken)
    \/ Getuserinfo_bycode(c)

\* One caller going through the calls of the client, one after the other.
Next ==
    \/ \E d \in TickMs : Tick(d)
    \/ TokenStep("a")
    \/ RequestStep("a")

Spec == Init /\ [][Next]_vars

\* Several callers running getAccessToken() on the one client, without the
\* sso option; the remote side answers with one error code.
RaceResponses ==
    {resp \in ServerResponses("gettoken") :
        resp.data # None => resp.data[1].errcode \in {0, 1}}

InitRace == Init /\ ~sso

NextRace ==
    \/ \E d \in TickMs : Tick(d)
    \/ \E c \in Callers :
         \/ StartGetAccessToken(c)
         \/ TokCheck(c)
         \/ \E resp \in RaceResponses : TokResponse(c, resp)
         \/ TokSave(c)
         \/ TokReturn(c)

SpecRace == InitRace /\ [][NextRace]_vars

\* One caller going through the Message wrappers.
NextMessage ==
    \/ \E d \in TickMs : Tick(d)
    \/ \E method \in MessageMethods :
         \E opts \in SUBSET Fields(method) : CallMessage("a", method, opts)
    \/ TokCheck("a")
    \/ \E resp \in ServerResponses(TokenEndpoint(sso)) : TokResponse("a", resp)
    \/ TokSave("a")
    \/ TokReturn("a")
    \/ ReqIssue("a")
    \/ \E resp \in ServerResponses("message/send") : ReqResponse("a", resp)

SpecMessage == Init /\ [][NextMessage]_vars

\* One caller calling getJSApiConfig() again and again on a client without
\* the sso option that holds an access token fetched at time 0 and valid
\* for the whole run; the remote side answers with one error code.
SignResponses ==
    {resp \in ServerResponses("get_jsapi_ticket") :
        resp.data # None => resp.data[1].errcode \in {0, 1}}

InitSign ==
    /\ now = 0
    /\ sso = FALSE
    /\ store = Some([accessToken |-> CHOOSE v \in TokenValues : TRUE,
                     expireTime |-> ExpireTime(0, MaxTicks + 11)])
    /\ ticketStore = [t \in TicketTypes |-> None]
    /\ callers = [c \in Callers |-> Idle]
    /\ lastSaved = ""
    /\ url = <<>> /\ once = <<>> /\ twice = <<>> /\ stage = 0

NextSign ==
    \/ \E d \in TickMs : Tick(d)
    \/ \E u \in SignUrls : \E opts \in SignOpts : StartGetJSApiConfig("a", u, opts)
    \/ TktCheck("a")
    \/ TokCheck("a")
    \/ ReqIssue("a")
    \/ \E resp \in SignResponses : ReqResponse("a", resp)
    \/ TktSave("a")
    \/ TktReturn("a")
    \/ Sign("a")

SpecSign == InitSign /\ [][NextSign]_vars

(* ------------------------------ properties ---------------------------- *)
\* The credential cred (None or a stored token or ticket) has its
\* expireTime after the time t.
Fresh(cred, t) ==
    cred # None /\ cred[1].expireTime # NaN /\ t < cred[1].expireTime

\* The body of the answer a call received last (RawResponse when the
\* answer had none).
Answer(r) == IF r.resp[1].data # None THEN r.resp[1].data[1] ELSE RawResponse

\* The answer a call received last reports success.
Succeeded(r) ==
    r.resp # None /\ ~r.resp[1].fail /\ r.resp[1].data # None
        /\ r.resp[1].data[1].errcode = 0

\* The answer a call received last is a failure: the transport failed or
\* the status field is not zero.
Failed(r) ==
    r.resp # None
        /\ (r.resp[1].fail
              \/ (r.resp[1].data # None /\ r.resp[1].data[1].errcode # 0))

TokenEndpoints == {"gettoken", "sso/gettoken"}

\* C1: a stored token or ticket is handed to the caller only when its
\* expireTime was after the time of the validity check; every value a
\* getAccessToken() or getJSApiTicket() call returns was either read from
\* the store and valid at the check, or fetched during that call.
C1_NoExpiredReturned ==
    \A c \in Callers :
      LET r == callers[c] IN
      /\ r.tokHitAt # NaN =>
            /\ Fresh(r.token, r.tokHitAt)
            /\ r.accessToken = r.token[1].accessToken
      /\ r.tktHitAt # NaN =>
            /\ Fresh(r.ticketToken, r.tktHitAt)
            /\ r.out.value = r.ticketToken[1].ticket
      /\ (r.pc = "done" /\ r.out.kind = "ok" /\ r.op = "getAccessToken") =>
            \/ r.tokHitAt # NaN /\ r.out.value = r.token[1].accessToken
            \/ /\ r.tokHitAt = NaN /\ r.nTokFetch = 1
               /\ r.resp # None /\ ~r.resp[1].fail
               /\ r.out.value = Answer(r).access_token
      /\ (r.pc = "done" /\ r.out.kind = "ok" /\ r.op = "getJSApiTicket") =>
            \/ r.tktHitAt # NaN /\ r.out.value = r.ticketToken[1].ticket
            \/ /\ r.tktHitAt = NaN /\ r.nTktFetch = 1
               /\ r.resp # None /\ ~r.resp[1].fail
               /\ r.out.value = Answer(r).ticket

\* A getAccessToken() call found a stored token whose expireTime was
\* exactly the time of the check, and returned a fetched one.
C1_Witness ==
    \E c \in Callers :
      LET r == callers[c] IN
      /\ r.op = "getAccessToken" /\ r.pc = "done" /\ r.out.kind = "ok"
      /\ r.token # None /\ r.token[1].expireTime = r.tokChkAt
      /\ r.nTokFetch = 1

\* C2: a getAccessToken() call that finds a stored token with expireTime
\* after the time of the check returns that token's value, issues no
\* network call and does not call the save hook.
C2_ValidTokenNoFetch ==
    \A c \in Callers :
      LET r == callers[c] IN
      (r.tokChkAt # NaN /\ Fresh(r.token, r.tokChkAt)) =>
          /\ r.tokHitAt = r.tokChkAt
          /\ r.nTokFetch = 0 /\ r.nTokSave = 0 /\ r.tokSaved = None
          /\ r.http = None /\ r.resp = None
          /\ r.pc = "done" /\ r.out.kind = "ok"
          /\ r.out.value = r.token[1].accessToken

\* A getAccessToken() call returned the stored token at a time after the
\* token was saved.
C2_Witness ==
    \E c \in Callers :
      LET r == callers[c] IN
      /\ r.op = "getAccessToken" /\ r.pc = "done"
      /\ r.tokHitAt # NaN /\ r.tokHitAt > 0
      /\ store = r.token

\* C3: a getAccessToken() call that finds no stored token, or one whose
\* expireTime is not after the time of the check, issues exactly one fetch,
\* to sso/gettoken when the sso option is set and to gettoken otherwise;
\* when the fetch succeeds it passes to the save hook the fetched token with
\* expireTime = time of the save + (expires_in - 10) * 1000 and returns the
\* fetched value.
C3_ExpiredTokenRefreshed ==
    \A c \in Callers :
      LET r == callers[c] IN
      /\ r.nTokFetch <= 1 /\ r.nTokSave <= r.nTokFetch
      /\ r.pc = "tok_wait" =>
            /\ r.http # None
            /\ r.http[1].url = (IF sso THEN "sso/gettoken" ELSE "gettoken")
      /\ r.op = "getAccessToken" =>
            /\ (r.tokChkAt # NaN /\ ~Fresh(r.token, r.tokChkAt)) =>
                  /\ r.nTokFetch = 1 /\ r.tokHitAt = NaN
                  /\ r.pc \in {"tok_wait", "tok_save", "tok_saved", "done"}
            /\ (r.nTokFetch = 1 /\ Succeeded(r)) =>
                  r.pc \in {"tok_save", "tok_saved", "done"}
            /\ (r.nTokFetch = 1 /\ Succeeded(r) /\ r.pc \in {"tok_saved", "done"}) =>
                  /\ r.nTokSave = 1
                  /\ r.tokSaved =
                       Some([accessToken |-> Answer(r).access_token,
                             expireTime |->
                               r.tokSavedAt + (Answer(r).expires_in - 10) * 1000])
                  /\ (lastSaved = c => store = r.tokSaved)
                  /\ r.pc = "done" =>
                       r.out.kind = "ok" /\ r.out.value = Answer(r).access_token

\* A getAccessToken() call found an expired stored token, fetched a new
\* one at a later time and left it in the store.
C3_Witness ==
    \E c \in Callers :
      LET r == callers[c] IN
      /\ r.op = "getAccessToken" /\ r.pc = "done" /\ r.out.kind = "ok"
      /\ r.token # None /\ r.token[1].expireTime # NaN
      /\ r.nTokFetch = 1 /\ Succeeded(r)
      /\ r.tokSavedAt > 0 /\ store = r.tokSaved /\ store # r.token
      /\ store[1].expireTime > r.tokSavedAt

\* C4: when the fetch of a token or of a ticket fails (transport failure
\* or non-zero status field), the call is over and rejected with that
\* error, it has made that one fetch only for the credential and has not
\* called the save hook for it.
C4_FailedFetchRejects ==
    \A c \in Callers :
      LET r == callers[c] IN
      (r.op \in {"getAccessToken", "getJSApiTicket"} /\ Failed(r)) =>
          /\ r.pc = "done" /\ r.http = None
          /\ r.out.kind = "error"
          /\ IF r.resp[1].fail
             THEN r.out.name = "TransportError"
             ELSE /\ r.out.name = "DingTalkClientResponseError"
                  /\ r.out.code = Answer(r).errcode
                  /\ r.out.data = r.resp[1].data
          /\ IF r.nTktFetch = 0
             THEN r.nTokFetch = 1 /\ r.nTokSave = 0 /\ r.tokSaved = None
             ELSE r.nTktFetch = 1 /\ r.nTktSave = 0 /\ r.tktSaved = None
          /\ r.op = "getJSApiTicket" => ticketStore = r.before

\* A getJSApiTicket() call was rejected with the status of the failed
\* ticket fetch while an expired ticket of that type stays stored.
C4_Witness ==
    \E c \in Callers :
      LET r == callers[c] IN
      /\ r.op = "getJSApiTicket" /\ r.pc = "done" /\ r.out.kind = "error"
      /\ r.nTktFetch = 1 /\ r.out.code \in ErrCodes
      /\ r.ticketToken # None /\ ticketStore[r.type] = r.ticketToken

\* C5: an answer with a body whose status field errcode is not zero makes
\* request() throw an error whose code is that errcode and whose data is
\* the whole body; an answer whose errcode is zero makes request() return
\* the body.
C5_EnvelopeUnwrapped ==
    \A c \in Callers :
      LET r == callers[c] IN
      (r.resp # None /\ ~r.resp[1].fail /\ r.resp[1].data # None) =>
          IF Answer(r).errcode # 0
          THEN /\ r.result.kind = "error"
               /\ r.result.name = "DingTalkClientResponseError"
               /\ r.result.code = Answer(r).errcode
               /\ r.result.data = Some(Answer(r))
               /\ r.pc = "done" /\ r.out = r.result
          ELSE /\ r.result.kind = "ok"
               /\ r.result.body = Some(Answer(r))
               /\ r.result.code = NaN /\ r.result.data = None
               /\ (r.pc = "done" /\ r.op \in {"getUserInfo", "getuserinfo_bycode"})
                     => r.out = r.result

\* A business call was rejected with code 1 and the body of the answer.
C5_Witness ==
    \E c \in Callers :
      LET r == callers[c] IN
      /\ r.op = "getUserInfo" /\ r.pc = "done" /\ r.nReq = 1
      /\ r.out.kind = "error" /\ r.out.code = 1
      /\ r.out.data = Some(Body(1, Undefined, Undefined, NaN))

\* C6: while request() resolves the access token no call to the endpoint
\* has been issued; the call it then issues carries as access_token the
\* caller-supplied token when one was given (no getAccessToken() then) and
\* otherwise the value getAccessToken() returned, stored and valid or just
\* fetched; with ignoreAccessToken no token is looked up and the call
\* carries no access_token.
C6_TokenAttached ==
    \A c \in Callers :
      LET r == callers[c] IN
      /\ r.pc \in {"tok_check", "tok_wait", "tok_save", "tok_saved", "req_attach"} =>
            /\ r.nReq = 0 /\ r.nTktFetch = 0
            /\ r.http # None => r.http[1].url \in TokenEndpoints
      /\ (r.http # None /\ r.http[1].url \in TokenEndpoints) =>
            ~r.http[1].hasToken
      /\ (r.http # None /\ r.http[1].url \notin TokenEndpoints) =>
            IF r.ignoreAccessToken
            THEN /\ ~r.http[1].hasToken
                 /\ r.tokChkAt = NaN /\ r.nTokFetch = 0
            ELSE IF r.supplied # Undefined
            THEN /\ r.http[1].hasToken /\ r.http[1].access_token = r.supplied
                 /\ r.tokChkAt = NaN /\ r.nTokFetch = 0
            ELSE /\ r.http[1].hasToken /\ r.tokChkAt # NaN
                 /\ IF r.tokHitAt # NaN
                    THEN /\ Fresh(r.token, r.tokHitAt)
                         /\ r.http[1].access_token = r.token[1].accessToken
                    ELSE /\ r.nTokFetch = 1 /\ r.nTokSave = 1
                         /\ r.http[1].access_token = r.tokSaved[1].accessToken

\* A business call without a supplied token is in flight with the token
\* that its own refresh of an expired stored token produced.
C6_Witness ==
    \E c \in Callers :
      LET r == callers[c] IN
      /\ r.op = "getUserInfo" /\ r.supplied = Undefined /\ r.pc = "req_wait"
      /\ r.token # None /\ r.nTokFetch = 1
      /\ r.http[1].hasToken /\ r.http[1].access_token \in TokenValues
      /\ r.http[1].access_token # r.token[1].accessToken

\* C7: getAccessToken() calls that overlap on an absent or expired token
\* each issue their own fetch; each call returns the token of its own
\* fetch, and once the overlapping calls are over the store holds the
\* token that the call which saved last passed to the save hook.
C7_RedundantFetches ==
    /\ \A c \in Callers :
         LET r == callers[c] IN
         /\ r.raced => r.nTokFetch = 1 /\ r.tokHitAt = NaN
         /\ (r.pc = "done" /\ r.nTokFetch = 1 /\ Succeeded(r)) =>
               /\ r.out.kind = "ok"
               /\ r.out.value = Answer(r).access_token
               /\ r.tokSaved # None
               /\ r.tokSaved[1].accessToken = Answer(r).access_token
    /\ (\A c \in Callers :
          callers[c].pc = "done" /\ callers[c].raced /\ callers[c].nTokSave = 1) =>
         /\ lastSaved \in Callers
         /\ store = callers[lastSaved].tokSaved

\* Two calls had their fetches in flight at once, returned different
\* tokens, and the store holds the one saved last.
C7_Witness ==
    /\ \A c \in Callers :
         callers[c].pc = "done" /\ callers[c].raced /\ callers[c].nTokSave = 1
    /\ \E c, d \in Callers : callers[c].out.value # callers[d].out.value
    /\ store = callers[lastSaved].tokSaved

\* C8: getJSApiTicket(type) works on the ticket of its type, "jsapi" when
\* none is given: a stored ticket with expireTime after the time of the
\* check is returned without a ticket fetch and without a save; otherwise
\* at most one ticket fetch is made and its result is saved under that
\* type with expireTime = time of the save + (expires_in - 10) * 1000 and
\* returned. The stored tickets of the other types stay as they were.
C8_TicketPerType ==
    \A c \in Callers :
      LET r == callers[c] IN
      r.op = "getJSApiTicket" =>
          /\ r.type = (IF r.arg = "" THEN "jsapi" ELSE r.arg)
          /\ r.nTktFetch <= 1 /\ r.nTktSave <= r.nTktFetch
          /\ \A t \in TicketTypes \ {r.type} : ticketStore[t] = r.before[t]
          /\ r.ticketToken = r.before[r.type]
          /\ (r.tktChkAt # NaN /\ Fresh(r.ticketToken, r.tktChkAt)) =>
                /\ r.tktHitAt = r.tktChkAt /\ r.pc = "done"
                /\ r.out.kind = "ok" /\ r.out.value = r.ticketToken[1].ticket
                /\ r.nTktFetch = 0 /\ r.nTktSave = 0 /\ r.nTokFetch = 0
                /\ ticketStore = r.before
          /\ (r.tktChkAt # NaN /\ ~Fresh(r.ticketToken, r.tktChkAt)) =>
                r.tktHitAt = NaN
          /\ (r.http # None /\ r.http[1].url \notin TokenEndpoints) =>
                r.http[1].url = "get_jsapi_ticket" /\ r.nTktFetch = 1
          /\ r.pc \in {"req_wait", "tkt_save", "tkt_saved"} => r.nTktFetch = 1
          /\ (r.pc = "done" /\ r.out.kind = "ok" /\ r.tktHitAt = NaN) =>
                r.nTktFetch = 1 /\ r.nTktSave = 1
          /\ (r.nTktFetch = 1 /\ r.http = None /\ Succeeded(r)) =>
                r.pc \in {"tkt_save", "tkt_saved", "done"}
          /\ (r.nTktFetch = 1 /\ Succeeded(r) /\ r.pc \in {"tkt_saved", "done"}) =>
                /\ r.nTktSave = 1
                /\ r.tktSaved =
                     Some([ticket |-> Answer(r).ticket,
                           expireTime |->
                             r.tktSavedAt + (Answer(r).expires_in - 10) * 1000])
                /\ ticketStore[r.type] = r.tktSaved
                /\ r.pc = "done" =>
                     r.out.kind = "ok" /\ r.out.value = Answer(r).ticket

\* A getJSApiTicket("agent") call fetched and saved a ticket while a
\* ticket of type "jsapi" was stored, and that one is unchanged.
C8_Witness ==
    \E c \in Callers :
      LET r == callers[c] IN
      /\ r.op = "getJSApiTicket" /\ r.arg = "agent" /\ r.pc = "done"
      /\ r.nTktFetch = 1 /\ r.nTktSave = 1
      /\ r.before["jsapi"] # None /\ ticketStore["jsapi"] = r.before["jsapi"]
      /\ ticketStore["agent"] # r.before["agent"]

\* The call misses a field its wrapper asserts.
Missing(method, opts) ==
    \/ method = "send" /\ {"touser", "toparty"} \cap opts = {}
    \/ method = "send" /\ {"msgtype", "agentid", "body"} \ opts # {}
    \/ method = "listMessageStatus" /\ "messageId" \notin opts
    \/ method = "sendMessage" /\ {"agent_id", "msg"} \ opts # {}
    \/ method = "sendMessage"
         /\ {"userid_list", "dept_id_list", "to_all_user"} \cap opts = {}
    \/ method \in {"getSendProgress", "getSendResult"}
         /\ {"agent_id", "task_id"} \ opts # {}
    \/ method = "recallMessage" /\ {"agent_id", "msg_task_id"} \ opts # {}

\* C9: a Message wrapper called without a field it requires is rejected at
\* once with the assertion error: the call has looked up no token, fetched
\* none, issued no request and saved nothing.
C9_MissingFieldRejected ==
    \A c \in Callers :
      LET r == callers[c] IN
      (r.op \in MessageMethods /\ Missing(r.op, r.opts)) =>
          /\ r.pc = "done"
          /\ r.out.kind = "error" /\ r.out.name = "AssertionError"
          /\ r.tokChkAt = NaN /\ r.token = None
          /\ r.nTokFetch = 0 /\ r.nReq = 0 /\ r.http = None /\ r.resp = None
          /\ r.nTokSave = 0 /\ r.nTktSave = 0

\* send() was called without msgtype while a token is stored.
C9_Witness ==
    \E c \in Callers :
      LET r == callers[c] IN
      /\ r.op = "send" /\ r.opts = {"touser", "agentid"}
      /\ r.pc = "done" /\ r.out.name = "AssertionError"
      /\ store # None

\* The string s holds none of the characters of chars.
NoneOf(s, chars) == \A i \in 1..Len(s) : s[i] \notin chars

\* The decoded query of u has no key holding '%', '#', '&', '+', '=' or a
\* space and no value holding '%', '#', '&', '+' or a space.
PlainQuery(u) ==
    LET query == UrlParse(u).query IN
    \A i \in 1..Len(query) :
      /\ NoneOf(query[i].key, {"%", "#", "&", "+", "=", " "})
      /\ \A j \in 1..Len(query[i].values) :
           NoneOf(query[i].values[j], {"%", "#", "&", "+", " "})

\* C10 as stated: _normalizeUrl applied to its own result gives that
\* result again, for every URL.
C10_Idempotent == stage = 2 => twice = once

\* C10 as amended: _normalizeUrl applied to its own result gives that
\* result again for every URL whose decoded query keys hold no '%', '#',
\* '&', '+', '=' or white space and whose decoded query values hold no
\* '%', '#', '&', '+' or white space.
C10_IdempotentPlainQuery == (stage = 2 /\ PlainQuery(url)) => twice = once

\* A URL with a percent-encoded '=' in a value was normalised twice: the
\* first result differs from the URL and the second is the first.
C10_Witness ==
    /\ stage = 2 /\ PlainQuery(url)
    /\ \E i \in 1..Len(url) : url[i] = "%"
    /\ once # url /\ twice = once

\* opts sets both noncestr and timestamp.
FixesBoth(opts) == opts.noncestr # None /\ opts.timestamp # None

\* The string a call made with url u and opts, holding ticket and signing
\* at time t, has to sign: the key=value pairs in the order of their keys,
\* with '&' between them.
Expected(ticket, u, opts, t) ==
    (IF opts.agentid # None
     THEN <<"agentid", "=", ToString(opts.agentid[1]), "&">> ELSE <<>>)
    \o <<"jsapi_ticket", "=", ToString(ticket), "&", "noncestr", "=">>
    \o (IF opts.noncestr # None
        THEN opts.noncestr[1] ELSE <<"DingTalk#", ToString(t)>>)
    \o <<"&", "timestamp", "=",
         ToString(IF opts.timestamp # None THEN opts.timestamp[1] ELSE t),
         "&", "url", "=">>
    \o normalizeUrl(u)

\* The call and the caller's earlier one both used the stored valid ticket,
\* the same one, and had the same url and the same opts.
SameInputs(r) ==
    /\ r.earlier # None
    /\ r.tktHitAt # NaN /\ r.earlier[1].cached
    /\ r.earlier[1].ticketToken = r.ticketToken
    /\ r.earlier[1].url = r.signUrl
    /\ r.earlier[1].opts = r.signOpts

\* C11: a getJSApiConfig() call signs the key=value pairs of its signature
\* record, sorted by key and joined by '&'; and two calls that used the
\* same stored valid ticket, with the same url and the same opts setting
\* noncestr and timestamp, return the same signature, timeStamp and
\* nonceStr, whatever the times the two calls sign at.
C11_Deterministic ==
    LET r == callers["a"] IN
    (r.op = "getJSApiConfig" /\ r.pc = "done" /\ r.config # None) =>
      /\ r.config[1].signature =
            Sha1(Expected(r.ticket, r.signUrl, r.signOpts, r.signedAt))
      /\ (SameInputs(r) /\ FixesBoth(r.signOpts)) =>
            /\ r.config[1].signature = r.earlier[1].config.signature
            /\ r.config[1].timeStamp = r.earlier[1].config.timeStamp
            /\ r.config[1].nonceStr = r.earlier[1].config.nonceStr

\* Two calls with the same url, the same opts setting noncestr, timestamp
\* and a property of their own, and the same stored valid ticket signed at
\* different times and returned the same signature, timeStamp and nonceStr.
C11_Witness ==
    LET r == callers["a"] IN
    /\ r.op = "getJSApiConfig" /\ r.pc = "done" /\ r.config # None
    /\ SameInputs(r) /\ FixesBoth(r.signOpts)
    /\ r.signOpts.agentid # None
    /\ r.signUrl # BaseUrl
    /\ r.earlier[1].signedAt # r.signedAt
    /\ r.config[1].signature = r.earlier[1].config.signature
    /\ r.config[1].timeStamp = r.earlier[1].config.timeStamp
    /\ r.config[1].nonceStr = r.earlier[1].config.nonceStr

====
